---- MODULE Spec2Model ----
(***************************************************************************)
(* A model of the crop-mapping notebooks.                                  *)
(*                                                                         *)
(*   src/src/cmap_dataset.ipynb  parse_filename, the directory scan that   *)
(*                               groups files by identifier, and the       *)
(*                               completeness filter       (SpecScan)      *)
(*                               parse_filename alone      (SpecParse)     *)
(*                               the HDF5 write block      (SpecWrite)     *)
(*   src/src/cmap_nn.ipynb       create_sequences          (SpecSeq)       *)
(*                               split_dataset             (SpecSplit)     *)
(*                                                                         *)
(* Python strings are modelled as sequences of tokens in which "_" and "." *)
(* are tokens of their own, so that str.split('_'), os.path.splitext and   *)
(* '_'.join are computed on the text and not assumed.                      *)
(***************************************************************************)
EXTENDS Integers, Sequences, FiniteSets, TLC

VARIABLES
    \* ---- cmap_dataset.ipynb: directory scan
    walk,             \* the files os.walk yields, in the order of the two loops
    cwd,              \* file name -> bytes of the file of that name in the working directory
    pos,              \* index in walk of the file the loop body handles next
    groups,           \* identifier -> grouped record
    complete_groups,  \* identifier -> grouped record, once the filter has run
    stdout,           \* the diagnostics printed so far
    pc,               \* "scan", "done", "crashed" (uncaught exception) or "idle"
    \* ---- cmap_nn.ipynb: create_sequences
    records,          \* the decoded records given to create_sequences
    seq_out,          \* its result, or NotRun
    \* ---- cmap_nn.ipynb: split_dataset
    sequences,        \* the sequences given to split_dataset
    labels,           \* the labels given to split_dataset
    rs42,             \* what the generator seeded with random_state=42 yields
    split_out,        \* run number -> result of that invocation
    \* ---- cmap_dataset.ipynb: parse_filename
    parse_in,         \* how the file name was made: from components, or as it is
    parse_arg,        \* the file name given to parse_filename
    parse_out,        \* its result, or NotRun
    \* ---- cmap_dataset.ipynb: HDF5 write block
    dataset_records,  \* the complete records to save
    hdf5,             \* what hdf5_path holds: Absent, or column name -> rows
    hf,               \* "unopened", "open", "raised" (closed by an exception) or "idle"
    created           \* number of create_dataset calls made

scanVars  == <<walk, cwd, pos, groups, complete_groups, stdout, pc>>
seqVars   == <<records, seq_out>>
splitVars == <<sequences, labels, rs42, split_out>>
parseVars == <<parse_in, parse_arg, parse_out>>
writeVars == <<dataset_records, hdf5, hf, created>>
vars      == <<scanVars, seqVars, splitVars, parseVars, writeVars>>

None   == <<"None">>
NotRun == [kind |-> "not_run"]
Absent == [kind |-> "absent"]

(***************************************************************************)
(* Generic helpers on sequences.                                           *)
(***************************************************************************)
Range(s) == {s[i] : i \in 1..Len(s)}

\* The function f of domain 1..n as a sequence held element by element.
List(f) == <<>> \o f

Max(S) == CHOOSE x \in S : \A y \in S : y <= x
Min(S) == CHOOSE x \in S : \A y \in S : x <= y

(***************************************************************************)
(* cmap_dataset.ipynb: parameters.                                         *)
(***************************************************************************)
sensors == <<"GNDVI", "NDVI", "NDVI45", "OSAVI", "PSRI", "RGB">>

SensorNames == Range(sensors)

crop_mapping ==
    (<<"BARLEY">> :> 0) @@ (<<"CANOLA">> :> 1) @@ (<<"CORN">> :> 2) @@
    (<<"MIXEDWOOD">> :> 3) @@ (<<"OAT">> :> 4) @@ (<<"ORCHARD">> :> 5) @@
    (<<"PASTURE">> :> 6) @@ (<<"POTATO">> :> 7) @@ (<<"SOYBEAN">> :> 8) @@
    (<<"SPRING", "_", "WHEAT">> :> 9)

(***************************************************************************)
(* String operations of parse_filename, on token sequences.                *)
(***************************************************************************)
\* str.lower() of one token.
Lower(tok) == IF tok = "PNG" THEN "png" ELSE IF tok = "Png" THEN "png" ELSE tok

\* file.lower().endswith('.png')
EndsWithPng(file) ==
    /\ Len(file) >= 2
    /\ file[Len(file) - 1] = "."
    /\ Lower(file[Len(file)]) = "png"

\* file.startswith("POINT_")
StartsWithPoint(file) ==
    /\ Len(file) >= 2
    /\ file[1] = "POINT"
    /\ file[2] = "_"

\* os.path.splitext: the extension starts at the last dot, unless only dots
\* precede it.
Splitext(file) ==
    LET dots == {i \in 1..Len(file) : file[i] = "."}
    IN  IF dots = {} THEN <<file, <<>> >>
        ELSE LET d == Max(dots)
             IN  IF \E i \in 1..(d - 1) : file[i] # "."
                 THEN <<SubSeq(file, 1, d - 1), SubSeq(file, d, Len(file))>>
                 ELSE <<file, <<>> >>

\* str.split('_'): the parts between the separators, empty parts kept.
RECURSIVE Split(_)
Split(s) ==
    LET seps == {i \in 1..Len(s) : s[i] = "_"}
    IN  IF seps = {} THEN <<s>>
        ELSE LET i == Min(seps)
             IN  <<SubSeq(s, 1, i - 1)>> \o Split(SubSeq(s, i + 1, Len(s)))

\* The join that leaves the separator out: "".join(parts).
RECURSIVE JoinWithoutSeparator(_)
JoinWithoutSeparator(parts) ==
    IF parts = <<>> THEN <<>>
    ELSE parts[1] \o JoinWithoutSeparator(Tail(parts))

\* "_".join(parts)
RECURSIVE Join(_)
Join(parts) ==
    IF parts = <<>> THEN <<>>
    ELSE IF Len(parts) = 1 THEN parts[1]
    ELSE parts[1] \o <<"_">> \o Join(Tail(parts))

\* The tokens int() accepts, with their values; int() raises ValueError on
\* every other text.
IntOfToken ==
    ("1" :> 1) @@ ("2" :> 2) @@ ("3" :> 3) @@ ("007" :> 7)

IsIntText(part) == Len(part) = 1 /\ part[1] \in DOMAIN IntOfToken

\* crop_mapping.get(crop_type, -1)
LabelOf(crop_type) ==
    IF crop_type \in DOMAIN crop_mapping THEN crop_mapping[crop_type] ELSE -1

\* parse_filename: "none" for the not-matched signal, "raise" when int()
\* raises ValueError, else the metadata.
parse_filename(filename) ==
    LET name  == Splitext(filename)[1]
        parts == Split(name)
    IN  IF Len(parts) < 6 \/ parts[1] # <<"POINT">>
        THEN [kind |-> "none"]
        ELSE IF ~IsIntText(parts[2])
        THEN [kind |-> "raise"]
        ELSE [kind        |-> "meta",
              POINT       |-> IntOfToken[parts[2][1]],
              DATE        |-> parts[3],
              REGION      |-> parts[4],
              SENSOR_TYPE |-> parts[Len(parts)],
              CROP_TYPE   |-> Join(SubSeq(parts, 5, Len(parts) - 1)),
              LABEL       |-> LabelOf(Join(SubSeq(parts, 5, Len(parts) - 1)))]

(***************************************************************************)
(* The directory tree the scan is run on.                                  *)
(*                                                                         *)
(* A file is [root, name]: the directory os.walk found it in, as the path  *)
(* components below base_dir, and its name.  DataAt(f) is the content of   *)
(* the file at that path.                                                  *)
(***************************************************************************)
MaxAbsent == 1   \* at most this many of the regular sensor files are missing
MaxOdd    == 2   \* at most this many of the irregular files are present

FileName(point, date, region, crop, sensor, ext) ==
    <<"POINT", "_", point, "_", date, "_", region, "_">> \o crop
        \o <<"_", sensor, ".", ext>>

CornFile(s)  == [root |-> <<s>>,
                 name |-> FileName("1", "D1", "R1", <<"CORN">>, s, "png")]
WheatFile(s) == [root |-> <<s, "tile">>,
                 name |-> FileName("2", "D2", "R1", <<"SPRING", "_", "WHEAT">>, s, "PNG")]

RegularFiles == [i \in 1..(2 * Len(sensors)) |->
                    IF i <= Len(sensors) THEN CornFile(sensors[i])
                    ELSE WheatFile(sensors[i - Len(sensors)])]

OddFiles ==
    << \* not a .png
       [root |-> <<"GNDVI">>,
        name |-> FileName("1", "D1", "R1", <<"CORN">>, "GNDVI", "txt")],
       \* does not start with POINT_
       [root |-> <<"GNDVI">>,
        name |-> <<"README", "_", "1", "_", "D1", "_", "R1", "_", "CORN", "_", "GNDVI", ".", "png">>],
       \* five segments only
       [root |-> <<"NDVI">>,
        name |-> <<"POINT", "_", "1", "_", "D1", "_", "R1", "_", "NDVI", ".", "png">>],
       \* the point id is not a number
       [root |-> <<"NDVI">>,
        name |-> FileName("x1", "D1", "R1", <<"CORN">>, "NDVI", "png")],
       \* a sensor tag that is not required, identifier of no other file
       [root |-> <<"NDVI45">>,
        name |-> FileName("3", "D1", "R1", <<"OAT">>, "FOO", "png")],
       \* a sensor tag that is not required, identifier of the CORN files
       [root |-> <<"RGB">>,
        name |-> FileName("1", "D1", "R1", <<"CORN">>, "TCI", "png")],
       \* a file below base_dir but in no sensor directory
       [root |-> <<"EXTRA">>,
        name |-> FileName("3", "D1", "R1", <<"OAT">>, "RGB", "png")] >>

AllFiles == Range(RegularFiles) \cup Range(OddFiles)

DataAt(f) == <<"bytes", f.root, f.name>>

\* The trees the scan is run on: the regular files but for a few, with or
\* without the nested SPRING_WHEAT files, and a few irregular files.
Tree(absent, odd, wheat) ==
    {RegularFiles[i] : i \in (IF wheat THEN 1..(2 * Len(sensors))
                              ELSE 1..Len(sensors)) \ absent}
        \cup {OddFiles[i] : i \in odd}

\* What open(name) finds in the working directory, by file name: nothing,
\* the files of the tree (the scan is run where the files are), the same
\* but for the PSRI files, or other files of the same names.
AllNames == {f.name : f \in AllFiles}

FileNamed(n) == CHOOSE f \in AllFiles : f.name = n

CwdChoices ==
    { [n \in AllNames |-> None],
      [n \in AllNames |-> DataAt(FileNamed(n))],
      [n \in AllNames |-> IF FileNamed(n).root[1] = "PSRI" THEN None
                          ELSE DataAt(FileNamed(n))],
      [n \in AllNames |-> <<"bytes", <<".">>, n>>] }

\* The listing order of one directory (the file system's): files of the
\* directory itself before those of its subdirectories, as os.walk yields
\* them top-down.
ListingOrder == OddFiles \o RegularFiles

\* for sensor_dir in sensors: if isdir(sensor_path): for root, _, files in
\* os.walk(sensor_path): for file in files
RECURSIVE WalkFrom(_, _)
WalkFrom(tree, i) ==
    IF i > Len(sensors) THEN <<>>
    ELSE LET Under(f) == f \in tree /\ f.root[1] = sensors[i]
             isdir    == \E f \in tree : f.root[1] = sensors[i]
         IN  (IF isdir THEN SelectSeq(ListingOrder, Under) ELSE <<>>)
                 \o WalkFrom(tree, i + 1)

Walk(tree) == WalkFrom(tree, 1)

(***************************************************************************)
(* The body of the scan loop.                                              *)
(***************************************************************************)
EmptyMap == [k \in {} |-> None]

NewGroup(meta) ==
    [k \in {"POINT", "DATE", "REGION", "CROP_TYPE", "LABEL"} \cup SensorNames |->
        CASE k = "POINT"     -> meta.POINT
          [] k = "DATE"      -> meta.DATE
          [] k = "REGION"    -> meta.REGION
          [] k = "CROP_TYPE" -> meta.CROP_TYPE
          [] k = "LABEL"     -> meta.LABEL
          [] OTHER           -> None]

IdentifierOf(meta) == <<meta.POINT, meta.DATE, meta.REGION, meta.CROP_TYPE>>

\* meta["SENSOR_TYPE"] in sensors
IsRequiredSensor(tag) == \E s \in SensorNames : tag = <<s>>

\* open(file, 'rb').read(): the name alone is opened, so it is looked up in
\* the working directory; None stands for the exception open raises.
ReadFile(f, wd) == wd[f.name]

\* One pass of the loop body on file f with grouped records g: the new
\* grouped records, what is printed, and whether an exception leaves the loop.
LoopBody(g, f, wd) ==
    LET skip == [groups |-> g, printed |-> <<>>, raised |-> FALSE]
    IN  IF ~EndsWithPng(f.name) THEN skip
        ELSE IF ~StartsWithPoint(f.name) THEN skip
        ELSE LET meta == parse_filename(f.name)
             IN  IF meta.kind = "raise"
                 THEN [groups |-> g, printed |-> <<>>, raised |-> TRUE]
                 ELSE IF meta.kind = "none" THEN skip
                 ELSE LET identifier  == IdentifierOf(meta)
                          image_bytes == ReadFile(f, wd)
                          g1 == IF identifier \in DOMAIN g THEN g
                                ELSE g @@ (identifier :> NewGroup(meta))
                      IN  IF image_bytes = None
                          THEN [groups  |-> g,
                                printed |-> << <<"Error reading", f.name>> >>,
                                raised  |-> FALSE]
                          ELSE IF IsRequiredSensor(meta.SENSOR_TYPE)
                          THEN [groups  |-> [g1 EXCEPT ![identifier][meta.SENSOR_TYPE[1]] = image_bytes],
                                printed |-> <<>>,
                                raised  |-> FALSE]
                          ELSE [groups  |-> g1,
                                printed |-> << <<"Invalid sensor", meta.SENSOR_TYPE, f.name>> >>,
                                raised  |-> FALSE]

\* The filter with any() for all(): any(v[sensor] is not None ...).
IsCompleteAny(v) == \E s \in SensorNames : v[s] # None

\* The two loops run to their end on the files given, from grouped records
\* g: the grouped records at the end, or Crashed when an exception leaves
\* the loops.
Crashed == <<"crashed">>

RECURSIVE GroupsAfter(_, _, _)
GroupsAfter(g, files, wd) ==
    IF files = <<>> THEN g
    ELSE LET r == LoopBody(g, files[1], wd)
         IN  IF r.raised THEN Crashed ELSE GroupsAfter(r.groups, Tail(files), wd)

\* all(v[sensor] is not None for sensor in sensors)
IsComplete(v) == \A s \in SensorNames : v[s] # None

\* {k: v for k, v in groups.items() if all(...)}
CompleteGroups(g) ==
    [k \in {i \in DOMAIN g : IsComplete(g[i])} |-> g[k]]

(***************************************************************************)
(* SpecScan: the scan and the completeness filter.                         *)
(***************************************************************************)
\* The parts of the state that a specification leaves alone.
IdleSeq   == records = <<>> /\ seq_out = NotRun
IdleSplit == sequences = <<>> /\ labels = <<>> /\ rs42 = <<>> /\ split_out = <<>>
IdleScan  == /\ walk = <<>> /\ cwd = <<>> /\ pos = 1 /\ groups = EmptyMap
             /\ complete_groups = None /\ stdout = <<>> /\ pc = "idle"
IdleParse == parse_in = <<>> /\ parse_arg = <<>> /\ parse_out = NotRun
IdleWrite == /\ dataset_records = <<>> /\ hdf5 = Absent /\ hf = "idle"
             /\ created = 0

ScanInit ==
    /\ \E absent \in SUBSET (1..(2 * Len(sensors))), odd \in SUBSET (1..Len(OddFiles)),
          wheat \in BOOLEAN :
            /\ Cardinality(absent) <= MaxAbsent
            /\ Cardinality(odd) <= MaxOdd
            /\ walk = Walk(Tree(absent, odd, wheat))
    /\ cwd \in CwdChoices
    /\ pos = 1
    /\ groups = EmptyMap
    /\ complete_groups = None
    /\ stdout = <<>>
    /\ pc = "scan"
    /\ IdleSeq
    /\ IdleSplit
    /\ IdleParse
    /\ IdleWrite

\* The loop body on the next file of the walk.
ScanFile ==
    /\ pc = "scan"
    /\ pos <= Len(walk)
    /\ LET r == LoopBody(groups, walk[pos], cwd)
       IN  /\ groups' = r.groups
           /\ stdout' = stdout \o r.printed
           /\ pc' = IF r.raised THEN "crashed" ELSE "scan"
           /\ pos' = IF r.raised THEN pos ELSE pos + 1
    /\ UNCHANGED <<walk, cwd, complete_groups, seqVars, splitVars, parseVars, writeVars>>

\* The filter and its report, once the loops have ended.
FilterComplete ==
    /\ pc = "scan"
    /\ pos > Len(walk)
    /\ complete_groups' = CompleteGroups(groups)
    /\ stdout' = Append(stdout,
           <<"Complete records", Cardinality(DOMAIN CompleteGroups(groups)),
             Cardinality(DOMAIN groups)>>)
    /\ pc' = "done"
    /\ UNCHANGED <<walk, cwd, pos, groups, seqVars, splitVars, parseVars, writeVars>>

ScanNext == ScanFile \/ FilterComplete

SpecScan == ScanInit /\ [][ScanNext]_vars

(***************************************************************************)
(* SpecParse: parse_filename called on one file name.                      *)
(*                                                                         *)
(* The name is either written from components, as                          *)
(* f"POINT_{p}_{d}_{r}_{c}_{s}.png", or one of a list of other names.      *)
(***************************************************************************)
\* str(p) of the integers used as point ids.
StrOfInt == (1 :> "1") @@ (2 :> "2") @@ (3 :> "3")

PointIds == DOMAIN StrOfInt

\* Texts without an underscore: plain, with a dot, empty.
DateTexts   == { <<"D1">>, <<"2017", ".", "05">>, <<>> }
RegionTexts == { <<"R1">>, <<"POINT">> }
SensorTexts == { <<"RGB">>, <<"FOO">>, <<"a", ".", "png">> }

\* Crop types, as lists of underscore-free segments.
CropSegments ==
    { << <<"CORN">> >>,
      << <<"SPRING">>, <<"WHEAT">> >>,
      << <<"WINTER">>, <<"WHEAT">> >>,
      << <<"RYE">> >>,
      << <<"A">>, <<>>, <<"B", ".", "C">> >> }

\* c: the segments of a crop type with "_" between them.
RECURSIVE CropText(_)
CropText(segments) ==
    IF Len(segments) = 1 THEN segments[1]
    ELSE segments[1] \o <<"_">> \o CropText(Tail(segments))

\* f"POINT_{p}_{d}_{r}_{c}_{s}.png"
FormatName(p, d, r, c, s) ==
    <<"POINT", "_", StrOfInt[p], "_">> \o d \o <<"_">> \o r \o <<"_">>
        \o c \o <<"_">> \o s \o <<".", "png">>

\* Names not written that way: too few segments, another first segment,
\* with and without a second segment that int() accepts.
OtherNames ==
    { <<>>,
      <<"POINT">>,
      <<"README", ".", "txt">>,
      <<"POINT", ".", "png">>,
      <<"POINT", "_", "1", "_", "D1", "_", "R1", "_", "NDVI", ".", "png">>,
      <<"POINT", "_", "x1", "_", "D1", ".", "png">>,
      <<"IMG", "_", "1", "_", "D1", "_", "R1", "_", "CORN", "_", "RGB", ".", "png">>,
      <<"point", "_", "x1", "_", "D1", "_", "R1", "_", "CORN", "_", "RGB", ".", "png">>,
      <<"POINT", ".", "x", "_", "1", "_", "D1", "_", "R1", "_", "CORN", "_", "RGB", ".", "png">> }

ParseInit ==
    /\ \/ \E p \in PointIds, d \in DateTexts, r \in RegionTexts,
              c \in CropSegments, s \in SensorTexts :
              /\ parse_in = [kind |-> "written", p |-> p, d |-> d, r |-> r,
                             c |-> CropText(c), s |-> s]
              /\ parse_arg = FormatName(p, d, r, CropText(c), s)
       \/ \E n \in OtherNames :
              /\ parse_in = [kind |-> "other"]
              /\ parse_arg = n
    /\ parse_out = NotRun
    /\ IdleScan
    /\ IdleSeq
    /\ IdleSplit
    /\ IdleWrite

\* meta = parse_filename(file)
ParseFilename ==
    /\ parse_out = NotRun
    /\ parse_out' = parse_filename(parse_arg)
    /\ UNCHANGED <<parse_in, parse_arg, scanVars, seqVars, splitVars, writeVars>>

ParseNext == ParseFilename

SpecParse == ParseInit /\ [][ParseNext]_vars

(***************************************************************************)
(* SpecWrite: the HDF5 write block.                                        *)
(*                                                                         *)
(* hdf5 is what the file at hdf5_path holds once it is closed: Absent, or  *)
(* a function from dataset names to their rows.  A blob is "bytes"         *)
(* followed by its byte values; a row of a variable-length dataset that    *)
(* was never written reads as the empty array.                             *)
(***************************************************************************)
MaxRows == 2   \* records to save

ScalarColumns == <<"POINT", "DATE", "REGION", "CROP_TYPE", "LABEL">>

\* The sensor datasets in the order the block creates them.
ImageColumns == <<"RGB", "NDVI", "NDVI45", "OSAVI", "PSRI", "GNDVI">>

\* np.array([], dtype='uint8')
EmptyArray == <<>>

\* convert_image_bytes: np.frombuffer gives the bytes of the blob, one
\* uint8 each; None gives the empty array.
convert_image_bytes(img_bytes) ==
    IF img_bytes = None THEN EmptyArray
    ELSE List([i \in 1..(Len(img_bytes) - 1) |-> img_bytes[i + 1] % 256])

\* points, dates, regions, crop_types, labels
ScalarColumn(name, recs) == List([i \in 1..Len(recs) |-> recs[i][name]])

\* rgb_images, ndvi_images, ...
ImageColumn(name, recs) ==
    List([i \in 1..Len(recs) |-> convert_image_bytes(recs[i][name])])

\* The create_dataset calls of the block, in order: the scalar datasets
\* with their data, the sensor datasets by shape, the sensor datasets with
\* their data.
Calls ==
    [i \in 1..Len(ScalarColumns) |-> [name |-> ScalarColumns[i], how |-> "scalar"]]
    \o [i \in 1..Len(ImageColumns) |-> [name |-> ImageColumns[i], how |-> "shape"]]
    \o [i \in 1..Len(ImageColumns) |-> [name |-> ImageColumns[i], how |-> "data"]]

\* The rows a call gives its dataset.
RowsOf(call, recs) ==
    IF call.how = "scalar" THEN ScalarColumn(call.name, recs)
    ELSE IF call.how = "shape" THEN List([i \in 1..Len(recs) |-> EmptyArray])
    ELSE ImageColumn(call.name, recs)

\* h5py's create_dataset raises ValueError when the name exists in the file.
NameExists(call, file) == call.name \in DOMAIN file

\* The complete records the block may be given.
SavedRecord(point, crop, first_byte) ==
    [k \in Range(ScalarColumns) \cup SensorNames |->
        IF k = "POINT" THEN point
        ELSE IF k = "DATE" THEN <<"D1">>
        ELSE IF k = "REGION" THEN <<"R1">>
        ELSE IF k = "CROP_TYPE" THEN crop
        ELSE IF k = "LABEL" THEN LabelOf(crop)
        ELSE IF k = "RGB" THEN <<"bytes", first_byte, 255, 0>>
        ELSE <<"bytes", first_byte>>]

SavedRecords == { SavedRecord(1, <<"CORN">>, 137), SavedRecord(2, <<"OAT">>, 66) }

\* A file a finished earlier run left at hdf5_path.
EarlierFile ==
    LET recs == <<SavedRecord(3, <<"BARLEY">>, 1)>>
    IN  [k \in Range(ScalarColumns) \cup SensorNames |->
            IF k \in SensorNames THEN ImageColumn(k, recs) ELSE ScalarColumn(k, recs)]

WriteInit ==
    /\ \E n \in 0..MaxRows : dataset_records \in [1..n -> SavedRecords]
    /\ hdf5 \in {Absent, EarlierFile}
    /\ hf = "unopened"
    /\ created = 0
    /\ IdleScan
    /\ IdleSeq
    /\ IdleSplit
    /\ IdleParse

\* h5py.File(hdf5_path, "w"): the file is created, or truncated if it exists.
OpenFile ==
    /\ hf = "unopened"
    /\ hf' = "open"
    /\ hdf5' = EmptyMap
    /\ UNCHANGED <<dataset_records, created, scanVars, seqVars, splitVars, parseVars>>

\* h5py.File raises OSError (the path cannot be written): nothing changes
\* at hdf5_path.
OpenFails ==
    /\ hf = "unopened"
    /\ hf' = "unopenable"
    /\ UNCHANGED <<dataset_records, hdf5, created, scanVars, seqVars, splitVars, parseVars>>

\* The next create_dataset call.  When it raises, the with statement
\* closes the file as it is; after the last call the with statement closes
\* the file and "Data saved" is printed.
CreateDataset ==
    /\ hf = "open"
    /\ created < Len(Calls)
    /\ LET call == Calls[created + 1]
       IN  IF NameExists(call, hdf5)
           THEN /\ hf' = "raised"
                /\ UNCHANGED <<hdf5, created>>
           ELSE /\ hdf5' = (call.name :> RowsOf(call, dataset_records)) @@ hdf5
                /\ created' = created + 1
                /\ hf' = IF created + 1 = Len(Calls) THEN "saved" ELSE "open"
    /\ UNCHANGED <<dataset_records, scanVars, seqVars, splitVars, parseVars>>

\* The next create_dataset call raises OSError (the device is full, the
\* path is lost): the with statement closes the file as it is.
CreateFails ==
    /\ hf = "open"
    /\ created < Len(Calls)
    /\ hf' = "raised"
    /\ UNCHANGED <<dataset_records, hdf5, created, scanVars, seqVars, splitVars, parseVars>>

WriteNext == OpenFile \/ OpenFails \/ CreateDataset \/ CreateFails

SpecWrite == WriteInit /\ [][WriteNext]_vars

(***************************************************************************)
(* cmap_nn.ipynb: create_sequences.                                        *)
(*                                                                         *)
(* A decoded record is [POINT, DATE, LABEL, ROW]: ROW is the row of the    *)
(* container the record was loaded from (load_records yields the rows in   *)
(* order), which tells apart two records of equal fields.  A DATE is the   *)
(* rank of the date token in the order Python compares the tokens in.      *)
(***************************************************************************)
sequence_length == 3

MaxRecords == 5   \* records given to create_sequences
MaxDate    == 2   \* distinct date tokens

\* points = defaultdict(list); points[record["POINT"]].append(record):
\* the keys in the order of first insertion.
RECURSIVE PointKeys(_)
PointKeys(recs) ==
    IF recs = <<>> THEN <<>>
    ELSE LET front == PointKeys(SubSeq(recs, 1, Len(recs) - 1))
             p     == recs[Len(recs)].POINT
         IN  IF p \in Range(front) THEN front ELSE Append(front, p)

\* points[p]: the records of point p in the order they were appended.
PointRecs(recs, p) ==
    LET OfPoint(r) == r.POINT = p
    IN  SelectSeq(recs, OfPoint)

\* list.sort(key=lambda x: x["DATE"]): a stable sort, here by insertion.
RECURSIVE SortByDate(_)
SortByDate(s) ==
    IF s = <<>> THEN <<>>
    ELSE LET front == SortByDate(SubSeq(s, 1, Len(s) - 1))
             x     == s[Len(s)]
             k     == Cardinality({i \in 1..Len(front) : front[i].DATE <= x.DATE})
         IN  SubSeq(front, 1, k) \o <<x>> \o SubSeq(front, k + 1, Len(front))

\* The label check with the label of the first record trusted:
\* len({r["LABEL"] for r in point_recs}) == 0.
HasOneLabelUnchecked(point_recs) ==
    Cardinality({r.LABEL : r \in Range(point_recs)}) # 0

\* len({r["LABEL"] for r in point_recs}) != 1
HasOneLabel(point_recs) == Cardinality({r.LABEL : r \in Range(point_recs)}) = 1

\* Windows with one window too few: range(len(point_recs) - sequence_length).
WindowsOneShort(point_recs) ==
    List([i \in 1..(Len(point_recs) - sequence_length) |->
            SubSeq(point_recs, i, i + sequence_length - 1)])

\* [point_recs[i:i+sequence_length] for i in range(len(point_recs) - sequence_length + 1)]
Windows(point_recs) ==
    List([i \in 1..(Len(point_recs) - sequence_length + 1) |->
            SubSeq(point_recs, i, i + sequence_length - 1)])

\* [label] * (len(point_recs) - sequence_length + 1)
Repeat(label, n) == List([i \in 1..n |-> label])

\* The loop over points.values(), from the k-th key on.
RECURSIVE SequencesFrom(_, _, _)
SequencesFrom(recs, keys, k) ==
    IF k > Len(keys) THEN [sequences |-> <<>>, labels |-> <<>>]
    ELSE LET point_recs == SortByDate(PointRecs(recs, keys[k]))
             rest       == SequencesFrom(recs, keys, k + 1)
         IN  IF ~HasOneLabel(point_recs) THEN rest
             ELSE [sequences |-> Windows(point_recs) \o rest.sequences,
                   labels    |-> Repeat(point_recs[1].LABEL,
                                        Len(point_recs) - sequence_length + 1)
                                     \o rest.labels]

create_sequences(recs) ==
    LET r == SequencesFrom(recs, PointKeys(recs), 1)
    IN  [kind      |-> "returned",
         sequences |-> r.sequences,
         labels    |-> r.labels,
         printed   |-> <<"Created", Len(r.sequences), "sequences from",
                         Len(PointKeys(recs)), "points">>]

(***************************************************************************)
(* SpecSeq: create_sequences applied to each list of records.              *)
(***************************************************************************)
\* The lists of at most MaxRecords records of two points: the point of the
\* first record is called 1 and the other 2, the label of the first record
\* is called 0 and the other 1 (create_sequences only compares them), and
\* the dates in use are the first ones (it only compares them too).
FirstIs(f, v) == DOMAIN f = {} \/ f[1] = v

UsesFirstDates(f) ==
    \A d \in 2..MaxDate : d \in Range(f) => (d - 1) \in Range(f)

SeqInit ==
    /\ \E n \in 0..MaxRecords :
         \E pt \in {f \in [1..n -> 1..2] : FirstIs(f, 1)},
            dt \in {f \in [1..n -> 1..MaxDate] : UsesFirstDates(f)},
            lb \in {f \in [1..n -> 0..1] : FirstIs(f, 0)} :
            records = List([i \in 1..n |-> [POINT |-> pt[i], DATE |-> dt[i],
                                            LABEL |-> lb[i], ROW |-> i]])
    /\ seq_out = NotRun
    /\ IdleScan
    /\ IdleSplit
    /\ IdleParse
    /\ IdleWrite

CreateSequences ==
    /\ seq_out = NotRun
    /\ seq_out' = create_sequences(records)
    /\ UNCHANGED <<records, scanVars, splitVars, parseVars, writeVars>>

SeqNext == CreateSequences

SpecSeq == SeqInit /\ [][SeqNext]_vars

(***************************************************************************)
(* cmap_nn.ipynb: split_dataset.                                           *)
(***************************************************************************)
test_size == [num |-> 3, den |-> 10]     \* 0.3
val_size  == [num |-> 15, den |-> 100]   \* 0.15

\* val_size / (1 - test_size)
val_fraction ==
    [num |-> val_size.num * test_size.den,
     den |-> val_size.den * (test_size.den - test_size.num)]

\* ceil(fraction * n)
CeilOf(fraction, n) == (n * fraction.num + fraction.den - 1) \div fraction.den

\* sklearn's train_test_split(arr, test_size=fraction, random_state=...):
\* n_test = ceil(fraction * n), n_train = n - n_test, ValueError when
\* n_train is 0; the shuffled positions perm[1..n_test] make the test list
\* and the following n_train positions the train list.
NTest(fraction, n) == CeilOf(fraction, n)

SplitRaises(arr, fraction) == Len(arr) - NTest(fraction, Len(arr)) <= 0

\* The train list taken one position early, so that it shares an element
\* with the test list.
train_test_split_overlap(arr, fraction, perm) ==
    LET n_test == NTest(fraction, Len(arr))
    IN  [test  |-> List([i \in 1..n_test |-> arr[perm[i]]]),
         train |-> List([i \in 1..(Len(arr) - n_test) |-> arr[perm[n_test + i - 1]]])]

train_test_split(arr, fraction, perm) ==
    LET n_test == NTest(fraction, Len(arr))
    IN  [test  |-> List([i \in 1..n_test |-> arr[perm[i]]]),
         train |-> List([i \in 1..(Len(arr) - n_test) |-> arr[perm[n_test + i]]])]

\* list(set(points)): the distinct point ids (of small integers, in
\* ascending order).
RECURSIVE SortedList(_)
SortedList(S) ==
    IF S = {} THEN <<>>
    ELSE <<Min(S)>> \o SortedList(S \ {Min(S)})

\* [i for i, p in enumerate(points) if p in point_list]
IndicesIn(points, point_list) ==
    LET members   == Range(point_list)
        Listed(i) == points[i] \in members
    IN  SelectSeq(List([i \in 1..Len(points) |-> i]), Listed)

\* imblearn's RandomOverSampler(sampling_strategy='not minority') on the
\* targets y: every class but the minority class (the least class of the
\* least count) is brought to the count of the majority class.
ClassCount(y, c) == Cardinality({i \in 1..Len(y) : y[i] = c})

MajorityCount(y) == Max({ClassCount(y, c) : c \in Range(y)})

MinorityClass(y) ==
    Min({c \in Range(y) :
            \A d \in Range(y) : ClassCount(y, c) <= ClassCount(y, d)})

\* sampling_strategy_: the number of samples to draw for class c.
SamplesToDraw(y, c) ==
    IF c = MinorityClass(y) THEN 0 ELSE MajorityCount(y) - ClassCount(y, c)

\* fit_resample raises ValueError when y holds fewer than two classes.
ResampleRaises(y) == Cardinality(Range(y)) <= 1

\* The draws fit_resample can make, classes in ascending order: for each
\* class, SamplesToDraw positions of y of that class, with replacement.
\* No random_state is given, so nothing fixes the draw.
RECURSIVE DrawsFrom(_, _)
DrawsFrom(y, classes) ==
    IF classes = <<>> THEN { <<>> }
    ELSE LET c     == classes[1]
             cands == {i \in 1..Len(y) : y[i] = c}
         IN  { a \o b : a \in [1..SamplesToDraw(y, c) -> cands],
                        b \in DrawsFrom(y, Tail(classes)) }

Draws(y) == DrawsFrom(y, SortedList(Range(y)))

\* fit_resample(X, y): the rows of X followed by the rows drawn.
fit_resample(X, y, drawn) == X \o List([k \in 1..Len(drawn) |-> X[drawn[k]]])

\* The body of split_dataset up to the oversampler: perm1 and perm2 are
\* the shuffles of the two seeded train_test_split calls.
SplitPoints(seqs) == List([i \in 1..Len(seqs) |-> seqs[i][1].POINT])

SplitPartition(seqs, labs, perm1, perm2) ==
    LET points        == SplitPoints(seqs)
        unique_points == SortedList(Range(points))
        first         == train_test_split(unique_points, test_size, perm1)
        second        == train_test_split(first.train, val_fraction, perm2)
        train_indices == IndicesIn(points, second.train)
        y             == List([k \in 1..Len(train_indices) |-> labs[train_indices[k]]])
    IN  IF SplitRaises(unique_points, test_size) THEN [kind |-> "raised"]
        ELSE IF SplitRaises(first.train, val_fraction) THEN [kind |-> "raised"]
        ELSE IF ResampleRaises(y) THEN [kind |-> "raised"]
        ELSE [kind          |-> "returned",
              train_points  |-> second.train,
              val_points    |-> second.test,
              test_points   |-> first.test,
              train_indices |-> train_indices,
              y             |-> y,
              val_indices   |-> IndicesIn(points, second.test),
              test_indices  |-> IndicesIn(points, first.test)]

\* The oversampler's part: resampled_indices, from the positions drawn.
Resampled(part, drawn) == fit_resample(part.train_indices, part.y, drawn)

\* The six lists of the return statement, from the indices.
Pick(list, indices) == List([k \in 1..Len(indices) |-> list[indices[k]]])

X_train(out) == Pick(sequences, out.resampled)
y_train(out) == Pick(labels, out.resampled)
X_val(out)   == Pick(sequences, out.val_indices)
y_val(out)   == Pick(labels, out.val_indices)
X_test(out)  == Pick(sequences, out.test_indices)
y_test(out)  == Pick(labels, out.test_indices)

(***************************************************************************)
(* SpecSplit and SpecSplitTwice: split_dataset called on the output of     *)
(* create_sequences for a set of points.                                   *)
(***************************************************************************)
MaxPoints == 6   \* points among the sequences
MaxSeqs   == 3   \* a point has MaxSeqs - 1 or MaxSeqs sequences
SplitLabels == {0, 1, 2}
Runs == {1, 2}

\* The records of point p: m records of one label.
RecordsOfPoint(p, label, m) ==
    List([i \in 1..m |-> [POINT |-> p, DATE |-> i, LABEL |-> label, ROW |-> 0]])

RECURSIVE RecordsOfPoints(_, _, _)
RecordsOfPoints(lab, cnt, p) ==
    IF p > Len(lab) THEN <<>>
    ELSE RecordsOfPoint(p, lab[p], cnt[p] + sequence_length - 1)
             \o RecordsOfPoints(lab, cnt, p + 1)

\* The shuffles of 1..n told apart by split_dataset, which only tests
\* membership in the lists train_test_split returns: one shuffle for each
\* choice of the n_test positions put first.
Shuffles(n, n_test) ==
    { SortedList(T) \o SortedList((1..n) \ T) :
        T \in {S \in SUBSET (1..n) : Cardinality(S) = n_test} }

ShufflesFor(n, fraction) ==
    IF n - NTest(fraction, n) <= 0 THEN { <<>> } ELSE Shuffles(n, NTest(fraction, n))

\* The points are numbered in the order of their (label, count): the
\* shuffles range over every assignment of the points to the three parts.
SplitInit ==
    /\ \E n \in 0..MaxPoints :
         \E lab \in [1..n -> SplitLabels], cnt \in [1..n -> (MaxSeqs - 1)..MaxSeqs] :
            /\ \A p \in 1..(n - 1) :
                  \/ lab[p] < lab[p + 1]
                  \/ lab[p] = lab[p + 1] /\ cnt[p] <= cnt[p + 1]
            /\ LET r == create_sequences(RecordsOfPoints(lab, cnt, 1))
               IN  sequences = r.sequences /\ labels = r.labels
            /\ \E perm1 \in ShufflesFor(n, test_size) :
               \E perm2 \in ShufflesFor(n - NTest(test_size, n), val_fraction) :
                  rs42 = <<perm1, perm2>>
    /\ split_out = [r \in Runs |-> NotRun]
    /\ IdleScan
    /\ IdleSeq
    /\ IdleParse
    /\ IdleWrite

\* One invocation of split_dataset(sequences, labels).
SplitDataset(run) ==
    /\ split_out[run] = NotRun
    /\ \A r \in Runs : r < run => split_out[r] # NotRun
    /\ \E part \in {SplitPartition(sequences, labels, rs42[1], rs42[2])} :
           IF part.kind = "raised"
           THEN split_out' = [split_out EXCEPT ![run] = part]
           ELSE \E drawn \in Draws(part.y) :
                   split_out' = [split_out EXCEPT ![run] =
                       [kind         |-> "returned",
                        train_points |-> part.train_points,
                        val_points   |-> part.val_points,
                        test_points  |-> part.test_points,
                        resampled    |-> Resampled(part, drawn),
                        val_indices  |-> part.val_indices,
                        test_indices |-> part.test_indices]]
    /\ UNCHANGED <<sequences, labels, rs42, scanVars, seqVars, parseVars, writeVars>>

\* SpecSplit: one invocation.
SplitNext == SplitDataset(1)

SpecSplit == SplitInit /\ [][SplitNext]_vars

\* SpecSplitTwice: two invocations on the same sequences and labels.
SplitTwiceNext == \E run \in Runs : SplitDataset(run)

SpecSplitTwice == SplitInit /\ [][SplitTwiceNext]_vars

(***************************************************************************)
(* Properties of create_sequences (SpecSeq).                               *)
(***************************************************************************)
RecsOfPoint(p) == {r \in Range(records) : r.POINT = p}

InputPoints == {r.POINT : r \in Range(records)}

UniformPoint(p) == Cardinality({r.LABEL : r \in RecsOfPoint(p)}) = 1

MixedPoint(p) == Cardinality({r.LABEL : r \in RecsOfPoint(p)}) > 1

\* The place of record r among the records of its point in ascending order
\* of date, records of one date in the order of the input.
DateRank(r) ==
    1 + Cardinality({q \in RecsOfPoint(r.POINT) :
                        \/ q.DATE < r.DATE
                        \/ q.DATE = r.DATE /\ q.ROW < r.ROW})

\* The positions of the output sequences that hold a record of point p.
SeqPositions(p) ==
    {k \in 1..Len(seq_out.sequences) :
        \E j \in 1..Len(seq_out.sequences[k]) : seq_out.sequences[k][j].POINT = p}

ExpectedWindows(m) ==
    IF m - sequence_length + 1 > 0 THEN m - sequence_length + 1 ELSE 0

\* C3: for every point whose m records share one label, create_sequences
\* produces exactly max(0, m - L + 1) sequences of that point; each has L
\* records, all of that point, and is the window at places i..i+L-1 of the
\* point's records in ascending order of date; labels is as long as
\* sequences and holds the point's label at the places of its sequences; a
\* point with m < L adds nothing.
C3_SlidingWindows ==
    seq_out.kind = "returned" =>
        /\ Len(seq_out.labels) = Len(seq_out.sequences)
        /\ \A k \in 1..Len(seq_out.sequences) :
              /\ Len(seq_out.sequences[k]) = sequence_length
              /\ \A j \in 1..sequence_length :
                    /\ seq_out.sequences[k][j] \in Range(records)
                    /\ seq_out.sequences[k][j].POINT = seq_out.sequences[k][1].POINT
        /\ \A p \in InputPoints :
              UniformPoint(p) =>
                 LET m == Cardinality(RecsOfPoint(p))
                 IN  /\ Cardinality(SeqPositions(p)) = ExpectedWindows(m)
                     /\ \A i \in 1..ExpectedWindows(m) :
                           \E k \in SeqPositions(p) :
                              /\ \A j \in 1..sequence_length :
                                    DateRank(seq_out.sequences[k][j]) = i + j - 1
                              /\ \A r \in RecsOfPoint(p) : seq_out.labels[k] = r.LABEL

\* A point of one label with two windows whose records arrive out of date
\* order, beside a point of fewer than L records.
C3_Witness ==
    /\ seq_out.kind = "returned"
    /\ \E p \in InputPoints :
          /\ UniformPoint(p)
          /\ Cardinality(RecsOfPoint(p)) = sequence_length + 1
          /\ Cardinality(SeqPositions(p)) = 2
          /\ \E q, r \in RecsOfPoint(p) : q.ROW < r.ROW /\ q.DATE > r.DATE
    /\ \E p \in InputPoints :
          /\ Cardinality(RecsOfPoint(p)) < sequence_length
          /\ SeqPositions(p) = {}

\* The input without the records of point p.
WithoutPoint(p) ==
    LET Other(r) == r.POINT # p
    IN  SelectSeq(records, Other)

\* C4: a point whose records do not share one label contributes no
\* sequence and no label, whatever its number of records, and the output
\* is the one create_sequences gives without the records of that point.
C4_MixedLabelPointDropped ==
    seq_out.kind = "returned" =>
        \A p \in InputPoints :
            MixedPoint(p) =>
               /\ SeqPositions(p) = {}
               /\ \E without \in {create_sequences(WithoutPoint(p))} :
                     /\ seq_out.sequences = without.sequences
                     /\ seq_out.labels = without.labels

\* A point of two labels with records enough for a window, beside a point
\* of one label.
C4_Witness ==
    /\ seq_out.kind = "returned"
    /\ \E p, q \in InputPoints :
          /\ MixedPoint(p)
          /\ Cardinality(RecsOfPoint(p)) >= sequence_length
          /\ SeqPositions(p) = {}
          /\ UniformPoint(q)

(***************************************************************************)
(* Properties of split_dataset (SpecSplit).                                *)
(***************************************************************************)
Returned(run) == split_out[run].kind = "returned"

InputPointIds == {sequences[i][1].POINT : i \in 1..Len(sequences)}

PointIdsOf(X) == {X[k][1].POINT : k \in 1..Len(X)}

\* The sequences of the train partition before the oversampler.
TrainPartition(out) ==
    {i \in 1..Len(sequences) : sequences[i][1].POINT \in Range(out.train_points)}

CountIn(list, x) == Cardinality({k \in 1..Len(list) : list[k] = x})

\* C1: when split_dataset returns, the train, validation and test point-id
\* sets are pairwise disjoint and their union is the set of the point ids
\* of the input; every input sequence is in the output of the part of its
\* point id, and no point id has sequences in two of the three outputs.
C1_PointDisjointSplit ==
    \A run \in Runs :
        Returned(run) =>
            LET out   == split_out[run]
                train == Range(out.train_points)
                val   == Range(out.val_points)
                test  == Range(out.test_points)
            IN  /\ train \cap val = {}
                /\ train \cap test = {}
                /\ val \cap test = {}
                /\ train \cup val \cup test = InputPointIds
                /\ \A i \in 1..Len(sequences) :
                      LET p == sequences[i][1].POINT
                      IN  /\ p \in train => sequences[i] \in Range(X_train(out))
                          /\ p \in val   => sequences[i] \in Range(X_val(out))
                          /\ p \in test  => sequences[i] \in Range(X_test(out))
                /\ PointIdsOf(X_train(out)) \subseteq train
                /\ PointIdsOf(X_val(out)) \subseteq val
                /\ PointIdsOf(X_test(out)) \subseteq test
                /\ PointIdsOf(X_train(out)) \cap PointIdsOf(X_val(out)) = {}
                /\ PointIdsOf(X_train(out)) \cap PointIdsOf(X_test(out)) = {}
                /\ PointIdsOf(X_val(out)) \cap PointIdsOf(X_test(out)) = {}

\* A split that returned with points in each part and a training output
\* the oversampler has added to.
C1_Witness ==
    \E run \in Runs :
        /\ Returned(run)
        /\ Len(split_out[run].train_points) > 1
        /\ Len(split_out[run].val_points) > 0
        /\ Len(split_out[run].test_points) > 1
        /\ Len(split_out[run].resampled) > Cardinality(TrainPartition(split_out[run]))

\* C2: after the oversampler, every label of the train partition has M
\* sequences in the training output, M the largest count of a label in
\* the train partition, and every resampled index is one of the train
\* partition (so the label it brings is the one it was drawn for).
C2_BalancedToMajority ==
    \A run \in Runs :
        Returned(run) =>
            LET out  == split_out[run]
                part == TrainPartition(out)
                M    == Max({Cardinality({i \in part : labels[i] = c}) :
                                c \in {labels[i] : i \in part}})
            IN  /\ \A k \in 1..Len(out.resampled) : out.resampled[k] \in part
                /\ \A c \in {labels[i] : i \in part} : CountIn(y_train(out), c) = M

\* C6: two invocations on the same sequences and labels return the same
\* partitions and the same multiset of oversampled training indices.
C6_Deterministic ==
    (Returned(1) /\ Returned(2)) =>
        /\ split_out[1].train_points = split_out[2].train_points
        /\ split_out[1].val_points = split_out[2].val_points
        /\ split_out[1].test_points = split_out[2].test_points
        /\ split_out[1].val_indices = split_out[2].val_indices
        /\ split_out[1].test_indices = split_out[2].test_indices
        /\ \A i \in 1..Len(sequences) :
              CountIn(split_out[1].resampled, i) = CountIn(split_out[2].resampled, i)

\* C7: split_dataset returns no split in which a label of the input has no
\* sequence in the train partition.
C7_MissingTrainLabelIsAnError ==
    \A run \in Runs :
        Returned(run) =>
            \A c \in Range(labels) :
                \E i \in TrainPartition(split_out[run]) : labels[i] = c

(***************************************************************************)
(* Properties of the scan and of the completeness filter (SpecScan).       *)
(***************************************************************************)
\* C5: the filter returns exactly the groups in which every required
\* sensor slot holds a blob: no returned record has an absent slot, no
\* complete group is dropped, each returned record is unchanged, and the
\* report is (complete = k, total = n).
C5_CompletenessFilter ==
    pc = "done" =>
        LET k == Cardinality({i \in DOMAIN groups :
                                 \A s \in SensorNames : groups[i][s] # None})
            n == Cardinality(DOMAIN groups)
        IN  /\ DOMAIN complete_groups \subseteq DOMAIN groups
            /\ \A i \in DOMAIN complete_groups :
                  /\ \A s \in SensorNames : complete_groups[i][s] # None
                  /\ complete_groups[i] = groups[i]
            /\ \A i \in DOMAIN groups :
                  (\A s \in SensorNames : groups[i][s] # None)
                      => i \in DOMAIN complete_groups
            /\ Cardinality(DOMAIN complete_groups) = k
            /\ stdout[Len(stdout)] = <<"Complete records", k, n>>

\* The filter has run on two groups of which one is complete, the other
\* holding some blobs.
C5_Witness ==
    /\ pc = "done"
    /\ Cardinality(DOMAIN groups) = 2
    /\ Cardinality(DOMAIN complete_groups) = 1
    /\ \E i \in DOMAIN groups :
          /\ i \notin DOMAIN complete_groups
          /\ \E s \in SensorNames : groups[i][s] # None

\* The files the loop body reaches the parser with.
Candidate(f) == EndsWithPng(f.name) /\ StartsWithPoint(f.name)

\* A .png file of at least 6 segments that starts with POINT and whose
\* second segment is no number.
MalformedPointId(f) ==
    /\ Candidate(f)
    /\ Len(Split(Splitext(f.name)[1])) >= 6
    /\ ~IsIntText(Split(Splitext(f.name)[1])[2])

\* A file that parses.
Parses(f) == Candidate(f) /\ parse_filename(f.name).kind = "meta"

\* A file that parses, is read, and carries a tag that is no required sensor.
ReadWithUnknownTag(f) ==
    /\ Parses(f)
    /\ ReadFile(f, cwd) # None
    /\ ~IsRequiredSensor(parse_filename(f.name).SENSOR_TYPE)

WalkWithout(Dropped(_)) ==
    LET Kept(f) == ~Dropped(f)
    IN  SelectSeq(walk, Kept)

\* C8: a file with a malformed point id is skipped and nothing else: the
\* scan goes on to the end, and the grouped records at the end are those
\* of the scan without that file.
C8_MalformedPointIdSkipped ==
    /\ pc # "crashed"
    /\ pc = "done" => groups = GroupsAfter(EmptyMap, WalkWithout(MalformedPointId), cwd)

\* C9: a file that is read and parses but carries a tag that is no
\* required sensor leaves the grouped records as they are: at the end they
\* are those of the scan without that file, so the total is the same.
C9_UnknownSensorTagIgnored ==
    pc = "done" =>
        /\ groups = GroupsAfter(EmptyMap, WalkWithout(ReadWithUnknownTag), cwd)
        /\ Cardinality(DOMAIN groups) =
              Cardinality(DOMAIN GroupsAfter(EmptyMap, WalkWithout(ReadWithUnknownTag), cwd))

\* C10: at the end of the scan every .png file of the walk that parses and
\* carries a required sensor tag has, in the record of its identifier and
\* the slot of its tag, the content of the file at the path it was found
\* at; a file that cannot be read is reported, and skipped without a
\* change to the grouped records.
C10_BlobIsTheFileFound ==
    /\ pc = "done" =>
          \A i \in 1..Len(walk) :
              (Parses(walk[i]) /\ IsRequiredSensor(parse_filename(walk[i].name).SENSOR_TYPE))
                  => LET meta == parse_filename(walk[i].name)
                     IN  /\ IdentifierOf(meta) \in DOMAIN groups
                         /\ groups[IdentifierOf(meta)][meta.SENSOR_TYPE[1]] = DataAt(walk[i])
    /\ \A i \in 1..(pos - 1) :
          (Parses(walk[i]) /\ ReadFile(walk[i], cwd) = None)
              => <<"Error reading", walk[i].name>> \in Range(stdout)

(***************************************************************************)
(* Properties of parse_filename (SpecParse).                               *)
(***************************************************************************)
\* The underscore-separated segments of a file name, counted on the name
\* as it is, and the first of them.
SegmentCount(name) == Cardinality({i \in 1..Len(name) : name[i] = "_"}) + 1

FirstSegment(name) ==
    LET seps == {i \in 1..Len(name) : name[i] = "_"}
    IN  IF seps = {} THEN name ELSE SubSeq(name, 1, Min(seps) - 1)

\* C11: parse_filename gives back the components a valid name was written
\* from: point p, date d, region r, crop type c (its segments rejoined
\* with "_"), sensor s, and the label the crop mapping has for c, or -1
\* when it has none; a name of fewer than 6 segments, or whose first
\* segment is not POINT, gives the not-matched signal.
C11_ParseRoundTrip ==
    parse_out # NotRun =>
        /\ parse_in.kind = "written" =>
              parse_out =
                  [kind        |-> "meta",
                   POINT       |-> parse_in.p,
                   DATE        |-> parse_in.d,
                   REGION      |-> parse_in.r,
                   CROP_TYPE   |-> parse_in.c,
                   SENSOR_TYPE |-> parse_in.s,
                   LABEL       |-> IF parse_in.c \in DOMAIN crop_mapping
                                   THEN crop_mapping[parse_in.c] ELSE -1]
        /\ (SegmentCount(parse_arg) < 6 \/ FirstSegment(parse_arg) # <<"POINT">>)
              => parse_out = [kind |-> "none"]

\* A name written with a crop type of two segments that the mapping holds
\* has been parsed.
C11_Witness ==
    /\ parse_in.kind = "written"
    /\ parse_in.c = <<"SPRING", "_", "WHEAT">>
    /\ parse_out # NotRun
    /\ parse_out.kind = "meta"
    /\ parse_out.LABEL = 9

(***************************************************************************)
(* Properties of the HDF5 write block (SpecWrite).                         *)
(***************************************************************************)
\* The container of the records: the five scalar columns and the six blob
\* columns, each with one row per record, in the order of the records.
ContainerOf(recs) ==
    [k \in Range(ScalarColumns) \cup SensorNames |->
        [i \in 1..Len(recs) |->
            IF k \in SensorNames THEN Tail(recs[i][k]) ELSE recs[i][k]]]

\* C12: once the writer has opened hdf5_path and has ended, with success
\* or with an exception at any of its steps, the file at hdf5_path is
\* either not there or the whole container of the records: every column,
\* each with the rows of the records in their order.
C12_AtomicCommit ==
    (hf \in {"raised", "saved"} /\ hdf5 # Absent)
        => /\ DOMAIN hdf5 = Range(ScalarColumns) \cup SensorNames
           /\ \A k \in DOMAIN hdf5 : hdf5[k] = ContainerOf(dataset_records)[k]

====
